---------------------------- MODULE Spec2Model ----------------------------
(***************************************************************************)
(* A model of mscoree_safe/src/metahost.rs: the RuntimeVersion enum built  *)
(* by ENUM_CONSTANTS!, the runtime catalog MetaHostImpl (runtime,          *)
(* runtimes, loaded_runtimes) and the handles RuntimeInfoImpl it owns.     *)
(* The native hosting API is the environment: every native call's status,  *)
(* out-pointer and returned string is an input of the action that makes    *)
(* the call.                                                               *)
(***************************************************************************)
EXTENDS Integers, Sequences, FiniteSets, TLC

VARIABLES
    pc,               \* "start" before MetaHostImpl::new, "ready", "aborted" after a panic!
    inner,            \* MetaHostImpl.inner: *mut ICLRMetaHost
    runtimes,         \* MetaHostImpl.runtimes: RuntimeVersion -> Rc (a handle id)
    loaded_runtimes,  \* MetaHostImpl.loaded_runtimes: RuntimeVersion -> bool
    heap,             \* the live Rc<RuntimeInfoImpl> objects, by id
    next_rc,          \* how many Rc::new have run
    op,               \* the last call made by the caller
    arg,              \* its version argument (runtime)
    hr,               \* the status of its CLRCreateInstance / GetRuntime call
    out_ptr,          \* the pointer that native call wrote
    calls,            \* the native entry points the last call used
    ret_handle,       \* Weak returned by runtime: <<id>>, <<>> when it did not return
    ret_map,          \* map returned by runtimes
    ret_loaded,       \* map returned by loaded_runtimes
    enum_in,          \* what EnumerateInstalledRuntimes answered in the last call
    lenum_in,         \* what EnumerateLoadedRuntimes answered in the last call
    first_ret,        \* history: version -> handle of the first successful runtime(version)
    runtimes_called,  \* history: runtimes() has been called
    enumerated,       \* history: a runtimes() call has run the installed-runtime enumeration
    snapshot,         \* history: the map that call returned
    loaded_called,    \* history: loaded_runtimes() has returned
    loaded_first,     \* history: the map its first call returned
    src_str,          \* conversion input: a version string
    src_ver,          \* conversion input: a RuntimeVersion
    from_ret,         \* RuntimeVersion::from(src_str)
    to_string_ret,    \* src_ver.to_string()
    back_str,         \* from_ret.to_string()
    back_ver,         \* RuntimeVersion::from(to_string_ret)
    done,             \* which of the conversions have run
    probe,            \* the handle the last accessor call was made on: <<id>>
    vb,               \* the BOOL local of that call after its native query
    ret_bool,         \* what loaded / loadable / started returned
    ret_version,      \* what version returned
    first_bool,       \* history: <<id, accessor>> -> what its first call returned
    first_version     \* history: id -> what the first version() on it returned

hostVars == <<pc, inner, runtimes, loaded_runtimes, heap, next_rc, op, arg, hr,
              out_ptr, calls, ret_handle, ret_map, ret_loaded, enum_in, lenum_in,
              first_ret, runtimes_called, enumerated, snapshot, loaded_called,
              loaded_first>>
convVars == <<src_str, src_ver, from_ret, to_string_ret, back_str, back_ver, done>>
probeVars == <<probe, vb, ret_bool, ret_version, first_bool, first_version>>
vars == <<hostVars, convVars, probeVars>>

----------------------------------------------------------------------------
(* Bounds of the model *)
MaxEnum == 2      \* items an installed-runtime enumerator yields
MaxLoaded == 1    \* items a loaded-runtime enumerator yields
MaxRc == 2        \* Rc::new calls in one run

----------------------------------------------------------------------------
(* Native values *)
S_OK == 0
NULL == 0
\* S_OK, S_FALSE and E_FAIL
HRESULT == {S_OK, 1, -2147467259}
S_FALSE == CHOOSE h \in HRESULT : h > S_OK
E_FAIL == CHOOSE h \in HRESULT : h < S_OK
Pointers == {NULL, 1}

----------------------------------------------------------------------------
(* RuntimeVersion: enum RuntimeVersion { V2, V3, V4, Unknown(String) } *)
V2 == <<"V2">>
V3 == <<"V3">>
V4 == <<"V4">>
Unknown(v) == <<"Unknown", v>>

\* strings the conversions are tried on: the three literals and near misses
Strings == {"v2.0.50727", "v3.0", "v4.0.30319", "v5.0", "", "v4.0", "V3.0",
            "v2.0.50727 "}
RuntimeVersion == {V2, V3, V4} \cup {Unknown(s) : s \in Strings}

to_string_unknown_lost(self) ==
    CASE self = V2 -> "v2.0.50727"
      [] self = V3 -> "v3.0"
      [] self = V4 -> "v4.0.30319"
      [] OTHER -> ""

to_string(self) ==
    CASE self = V2 -> "v2.0.50727"
      [] self = V3 -> "v3.0"
      [] self = V4 -> "v4.0.30319"
      [] OTHER -> self[2]

from_v3_missing(in_str) ==
    CASE in_str = "v2.0.50727" -> V2
      [] in_str = "v4.0.30319" -> V4
      [] OTHER -> Unknown(in_str)

from(in_str) ==
    CASE in_str = "v2.0.50727" -> V2
      [] in_str = "v3.0" -> V3
      [] in_str = "v4.0.30319" -> V4
      [] OTHER -> Unknown(in_str)

----------------------------------------------------------------------------
(* HashMap *)
HashMap_new == [k \in {} |-> {}]
is_empty(map) == DOMAIN map = {}
contains_key(map, key) == key \in DOMAIN map
insert(map, key, value) ==
    [k \in DOMAIN map \cup {key} |-> IF k = key THEN value ELSE map[k]]
\* Option: <<>> is None, <<x>> is Some(x)
get(map, key) == IF key \in DOMAIN map THEN <<map[key]>> ELSE <<>>


----------------------------------------------------------------------------
(* RuntimeInfoImpl *)
None == <<>>
RuntimeInfoImpl(version, ri_ptr) ==
    [version |-> version, inner |-> ri_ptr, loaded |-> None, loadable |-> None,
     started |-> None]

\* RuntimeInfoImpl::version(in_ptr): ver_hr and ver_str are what the second
\* GetVersionString call and BString::to_string gave
RuntimeInfoImpl_version(in_ptr, ver_hr, ver_str) ==
    IF ver_hr = S_OK THEN from(ver_str) ELSE Unknown("")

\* <RuntimeInfoImpl as RuntimeInfo>::version(&mut self): self after the call;
\* the value returned is its version field
RuntimeInfo_version(self, ver_hr, ver_str) ==
    IF self.version \in {V2, V3, V4} THEN self
    ELSE IF ver_hr = S_OK THEN [self EXCEPT !.version = from(ver_str)]
    ELSE self

----------------------------------------------------------------------------
(* What the native enumerators answer *)
\* version strings a native runtime reports. The buffer handed to
\* BString::from_vec is a Vec of length 0 that GetVersionString wrote past, so
\* the string read back is the native one or the empty one; the empty one
\* gives Unknown(""), the version VersionFails gives.
NativeStrings == {"v4.0.30319", "v5.0"}

\* one Next: its status, then QueryInterface's status and pointer, then
\* GetVersionString's status and string
NextFails == [next_hr |-> E_FAIL, qi_hr |-> E_FAIL, ri_ptr |-> NULL,
              ver_hr |-> E_FAIL, ver_str |-> ""]
QueryInterfaceFails == [next_hr |-> S_OK, qi_hr |-> E_FAIL, ri_ptr |-> NULL,
                        ver_hr |-> E_FAIL, ver_str |-> ""]
VersionFails == [next_hr |-> S_OK, qi_hr |-> S_OK, ri_ptr |-> 1,
                 ver_hr |-> E_FAIL, ver_str |-> ""]
Reports(s) == [next_hr |-> S_OK, qi_hr |-> S_OK, ri_ptr |-> 1,
               ver_hr |-> S_OK, ver_str |-> s]
EnumItems == {NextFails, QueryInterfaceFails, VersionFails}
                 \cup {Reports(s) : s \in NativeStrings}

\* the answers one enumeration gets from Next: a failing Next ends the loop,
\* so it is the last answer; after the last item of a script Next answers
\* S_FALSE
Scripts(n) ==
    {s \in UNION {[1..k -> EnumItems] : k \in 0..n} :
        \A i \in 1..(Len(s) - 1) : s[i].next_hr = S_OK}
EnumFails == [hr |-> E_FAIL, ieu_ptr |-> NULL, items |-> <<>>]
NoAnswer == [hr |-> S_OK, ieu_ptr |-> NULL, items |-> <<>>]
EnumAnswers(n) == {EnumFails} \cup
    {[hr |-> S_OK, ieu_ptr |-> 1, items |-> s] : s \in Scripts(n)}

----------------------------------------------------------------------------
(* MetaHostImpl::new *)
new_ok_any_pointer(new_hr, mh_ptr) == new_hr = 0

new_ok(new_hr, mh_ptr) == new_hr = 0 /\ mh_ptr # NULL

MetaHostImpl_new(new_hr, mh_ptr) ==
    /\ pc = "start"
    /\ op' = "new"
    /\ hr' = new_hr
    /\ out_ptr' = mh_ptr
    /\ calls' = {"CLRCreateInstance"}
    /\ IF new_ok(new_hr, mh_ptr)
       THEN /\ pc' = "ready"
            /\ inner' = mh_ptr
            /\ runtimes' = HashMap_new
            /\ loaded_runtimes' = HashMap_new
       ELSE /\ pc' = "aborted"
            /\ UNCHANGED <<inner, runtimes, loaded_runtimes>>
    /\ UNCHANGED <<heap, next_rc, arg, ret_handle, ret_map, ret_loaded, enum_in,
                   lenum_in, first_ret, runtimes_called, enumerated, snapshot,
                   loaded_called, loaded_first>>
    /\ UNCHANGED <<convVars, probeVars>>

----------------------------------------------------------------------------
(* MetaHostImpl::runtime *)
RuntimeArgs == {V2, V4, Unknown("v4.0.30319"), Unknown("v5.0")}

runtime_get_misses(map, version) == None

runtime_get(map, version) == get(map, version)

runtime_ok_any_status(rt_hr, ri_ptr) == ri_ptr # NULL

runtime_ok(rt_hr, ri_ptr) == rt_hr = 0 /\ ri_ptr # NULL

MetaHostImpl_runtime(version, rt_hr, ri_ptr) ==
    /\ pc = "ready"
    /\ op' = "runtime"
    /\ arg' = version
    /\ ret_map' = HashMap_new
    /\ ret_loaded' = HashMap_new
    /\ enum_in' = NoAnswer
    /\ lenum_in' = NoAnswer
    /\ IF runtime_get(runtimes, version) # None
       THEN /\ rt_hr = S_OK /\ ri_ptr = NULL      \* no native call: nothing to choose
            /\ ret_handle' = runtime_get(runtimes, version)
            /\ calls' = {}
            /\ hr' = S_OK
            /\ out_ptr' = NULL
            /\ first_ret' = IF contains_key(first_ret, version) THEN first_ret
                            ELSE insert(first_ret, version, runtimes[version])
            /\ UNCHANGED <<pc, runtimes, heap, next_rc>>
       ELSE /\ next_rc < MaxRc
            /\ calls' = {"GetRuntime"}
            /\ hr' = rt_hr
            /\ out_ptr' = ri_ptr
            /\ IF runtime_ok(rt_hr, ri_ptr)
               THEN /\ next_rc' = next_rc + 1
                    /\ heap' = insert(heap, next_rc + 1,
                                      RuntimeInfoImpl(version, ri_ptr))
                    /\ runtimes' = insert(runtimes, version, next_rc + 1)
                    /\ ret_handle' = <<next_rc + 1>>
                    /\ first_ret' = IF contains_key(first_ret, version) THEN first_ret
                                    ELSE insert(first_ret, version, next_rc + 1)
                    /\ UNCHANGED pc
               ELSE /\ pc' = "aborted"
                    /\ ret_handle' = None
                    /\ UNCHANGED <<runtimes, heap, next_rc, first_ret>>
    /\ UNCHANGED <<inner, loaded_runtimes, runtimes_called, enumerated, snapshot,
                   loaded_called, loaded_first>>
    /\ UNCHANGED <<convVars, probeVars>>

----------------------------------------------------------------------------
(* MetaHostImpl::runtimes *)
runtimes_is_empty_always(map) == TRUE

runtimes_is_empty(map) == is_empty(map)

enumerate_ok(enum_hr, ieu_ptr) == enum_hr = 0 /\ ieu_ptr # NULL

query_ok(inner_hr, ri_ptr) == inner_hr = S_OK /\ ri_ptr # NULL

\* the while loop: Next, QueryInterface, ri.version(), hmri.insert(v, Rc::new(ri))
RECURSIVE installed_loop(_, _, _, _)
installed_loop(items, hmri, objs, rc) ==
    IF items = <<>> \/ Head(items).next_hr # S_OK
    THEN [hmri |-> hmri, objs |-> objs, rc |-> rc]
    ELSE LET it == Head(items)
             ri == RuntimeInfo_version(RuntimeInfoImpl(Unknown(""), it.ri_ptr),
                                       it.ver_hr, it.ver_str)
         IN  IF query_ok(it.qi_hr, it.ri_ptr)
             THEN installed_loop(Tail(items), insert(hmri, ri.version, rc + 1),
                                 insert(objs, rc + 1, ri), rc + 1)
             ELSE installed_loop(Tail(items), hmri, objs, rc)

\* the Rc objects a map keeps alive
Live(map) == {map[k] : k \in DOMAIN map}

\* the body of runtimes(): the catalog after the call, the map returned, and
\* whether the enumerator was asked for and whether its loop ran
runtimes_call(map, hp, rc, ans) ==
    IF runtimes_is_empty(map)
    THEN IF enumerate_ok(ans.hr, ans.ieu_ptr)
         THEN LET r == installed_loop(ans.items, HashMap_new, HashMap_new, rc)
              IN  [runtimes |-> r.hmri,
                   heap |-> [id \in Live(r.hmri) |-> r.objs[id]],
                   next_rc |-> r.rc, weak_map |-> r.hmri,
                   asked |-> TRUE, looped |-> TRUE, ans |-> ans]
         ELSE [runtimes |-> map, heap |-> hp, next_rc |-> rc, weak_map |-> map,
               asked |-> TRUE, looped |-> FALSE, ans |-> ans]
    ELSE [runtimes |-> map, heap |-> hp, next_rc |-> rc, weak_map |-> map,
          asked |-> FALSE, looped |-> FALSE, ans |-> NoAnswer]

\* the answers a call of runtimes() can get: one only when it asks
InstalledAnswers(map) ==
    IF runtimes_is_empty(map) THEN EnumAnswers(MaxEnum) ELSE {NoAnswer}

MetaHostImpl_runtimes(ans) ==
    /\ pc = "ready"
    /\ LET r == runtimes_call(runtimes, heap, next_rc, ans)
       IN  /\ r.next_rc <= MaxRc
           /\ runtimes' = r.runtimes
           /\ heap' = r.heap
           /\ next_rc' = r.next_rc
           /\ ret_map' = r.weak_map
           /\ enum_in' = r.ans
           /\ calls' = IF r.asked THEN {"EnumerateInstalledRuntimes"} ELSE {}
           /\ enumerated' = (enumerated \/ r.looped)
           /\ snapshot' = IF ~enumerated /\ r.looped THEN r.weak_map ELSE snapshot
    /\ op' = "runtimes"
    /\ runtimes_called' = TRUE
    /\ arg' = Unknown("")
    /\ hr' = S_OK
    /\ out_ptr' = NULL
    /\ ret_handle' = None
    /\ ret_loaded' = HashMap_new
    /\ lenum_in' = NoAnswer
    /\ UNCHANGED <<pc, inner, loaded_runtimes, first_ret, loaded_called, loaded_first>>
    /\ UNCHANGED <<convVars, probeVars>>

----------------------------------------------------------------------------
(* MetaHostImpl::loaded_runtimes *)
loaded_runtimes_is_empty(map) == is_empty(map)

\* the while loop: Next, QueryInterface, RuntimeInfoImpl::version, hmri.insert(v, true)
RECURSIVE loaded_loop(_, _)
loaded_loop(items, hmri) ==
    IF items = <<>> \/ Head(items).next_hr # S_OK
    THEN hmri
    ELSE LET it == Head(items)
         IN  IF query_ok(it.qi_hr, it.ri_ptr)
             THEN loaded_loop(Tail(items),
                              insert(hmri, RuntimeInfoImpl_version(it.ri_ptr, it.ver_hr,
                                                                   it.ver_str), TRUE))
             ELSE loaded_loop(Tail(items), hmri)

\* self.runtimes().iter().for_each: keys not yet in hmri are inserted as false
mark_not_loaded(hmri, weak_map) ==
    [k \in DOMAIN hmri \cup DOMAIN weak_map |->
        IF contains_key(hmri, k) THEN hmri[k] ELSE FALSE]

\* the body of loaded_runtimes(): lans is EnumerateLoadedRuntimes' answer, ans
\* the answer to the runtimes() call made inside
loaded_runtimes_call(lmap, map, hp, rc, lans, ans) ==
    IF loaded_runtimes_is_empty(lmap)
    THEN IF enumerate_ok(lans.hr, lans.ieu_ptr)
         THEN LET r == runtimes_call(map, hp, rc, ans)
                  hmri == mark_not_loaded(loaded_loop(lans.items, HashMap_new),
                                          r.weak_map)
              IN  [loaded_runtimes |-> hmri, clone |-> hmri, r |-> r,
                   asked |-> TRUE, inner_call |-> TRUE, lans |-> lans]
         ELSE [loaded_runtimes |-> lmap, clone |-> lmap,
               r |-> [runtimes |-> map, heap |-> hp, next_rc |-> rc, weak_map |-> map,
                      asked |-> FALSE, looped |-> FALSE, ans |-> NoAnswer],
               asked |-> TRUE, inner_call |-> FALSE, lans |-> lans]
    ELSE [loaded_runtimes |-> lmap, clone |-> lmap,
          r |-> [runtimes |-> map, heap |-> hp, next_rc |-> rc, weak_map |-> map,
                 asked |-> FALSE, looped |-> FALSE, ans |-> NoAnswer],
          asked |-> FALSE, inner_call |-> FALSE, lans |-> NoAnswer]

LoadedAnswers(lmap) ==
    IF loaded_runtimes_is_empty(lmap) THEN EnumAnswers(MaxLoaded) ELSE {NoAnswer}

MetaHostImpl_loaded_runtimes(lans, ans) ==
    /\ pc = "ready"
    /\ LET l == loaded_runtimes_call(loaded_runtimes, runtimes, heap, next_rc, lans, ans)
       IN  /\ l.r.next_rc <= MaxRc
           /\ l.inner_call \/ ans = NoAnswer
           /\ loaded_runtimes' = l.loaded_runtimes
           /\ ret_loaded' = l.clone
           /\ lenum_in' = l.lans
           /\ runtimes' = l.r.runtimes
           /\ heap' = l.r.heap
           /\ next_rc' = l.r.next_rc
           /\ enum_in' = l.r.ans
           /\ calls' = (IF l.asked THEN {"EnumerateLoadedRuntimes"} ELSE {})
                          \cup (IF l.r.asked THEN {"EnumerateInstalledRuntimes"} ELSE {})
           /\ runtimes_called' = (runtimes_called \/ l.inner_call)
           /\ enumerated' = (enumerated \/ l.r.looped)
           /\ snapshot' = IF ~enumerated /\ l.r.looped THEN l.r.weak_map ELSE snapshot
           /\ loaded_first' = IF loaded_called THEN loaded_first ELSE l.clone
    /\ op' = "loaded_runtimes"
    /\ loaded_called' = TRUE
    /\ arg' = Unknown("")
    /\ hr' = S_OK
    /\ out_ptr' = NULL
    /\ ret_handle' = None
    /\ ret_map' = HashMap_new
    /\ UNCHANGED <<pc, inner, first_ret>>
    /\ UNCHANGED <<convVars, probeVars>>

----------------------------------------------------------------------------
(* The catalog and its callers *)
HostInit ==
    /\ pc = "start"
    /\ inner = NULL
    /\ runtimes = HashMap_new
    /\ loaded_runtimes = HashMap_new
    /\ heap = HashMap_new
    /\ next_rc = 0
    /\ op = "none"
    /\ arg = Unknown("")
    /\ hr = S_OK
    /\ out_ptr = NULL
    /\ calls = {}
    /\ ret_handle = None
    /\ ret_map = HashMap_new
    /\ ret_loaded = HashMap_new
    /\ enum_in = NoAnswer
    /\ lenum_in = NoAnswer
    /\ first_ret = HashMap_new
    /\ runtimes_called = FALSE
    /\ enumerated = FALSE
    /\ snapshot = HashMap_new
    /\ loaded_called = FALSE
    /\ loaded_first = HashMap_new

ConvIdle ==
    /\ src_str = ""
    /\ src_ver = Unknown("")
    /\ from_ret = Unknown("")
    /\ to_string_ret = ""
    /\ back_str = ""
    /\ back_ver = Unknown("")
    /\ done = {}

ProbeIdle ==
    /\ probe = None
    /\ vb = 0
    /\ ret_bool = FALSE
    /\ ret_version = Unknown("")
    /\ first_bool = HashMap_new
    /\ first_version = HashMap_new

Init == HostInit /\ ConvIdle /\ ProbeIdle

Next ==
    \/ \E new_hr \in HRESULT, mh_ptr \in Pointers : MetaHostImpl_new(new_hr, mh_ptr)
    \/ \E version \in RuntimeArgs, rt_hr \in HRESULT, ri_ptr \in Pointers :
          MetaHostImpl_runtime(version, rt_hr, ri_ptr)
    \/ \E ans \in InstalledAnswers(runtimes) : MetaHostImpl_runtimes(ans)
    \/ \E lans \in LoadedAnswers(loaded_runtimes), ans \in InstalledAnswers(runtimes) :
          MetaHostImpl_loaded_runtimes(lans, ans)

Spec == Init /\ [][Next]_vars

----------------------------------------------------------------------------
(* The conversions of RuntimeVersion on their own: both directions applied  *)
(* to every string of Strings and every value of RuntimeVersion, and each   *)
(* result converted back.                                                    *)
VersionLiterals == {"v2.0.50727", "v3.0", "v4.0.30319"}

ConvInit ==
    /\ src_str \in Strings
    /\ src_ver \in RuntimeVersion
    /\ from_ret = Unknown("")
    /\ to_string_ret = ""
    /\ back_str = ""
    /\ back_ver = Unknown("")
    /\ done = {}

Apply_from ==
    /\ "from" \notin done
    /\ from_ret' = from(src_str)
    /\ done' = done \cup {"from"}
    /\ UNCHANGED <<src_str, src_ver, to_string_ret, back_str, back_ver>>
    /\ UNCHANGED <<hostVars, probeVars>>

Apply_to_string ==
    /\ "to_string" \notin done
    /\ to_string_ret' = to_string(src_ver)
    /\ done' = done \cup {"to_string"}
    /\ UNCHANGED <<src_str, src_ver, from_ret, back_str, back_ver>>
    /\ UNCHANGED <<hostVars, probeVars>>

Apply_to_string_of_from ==
    /\ "from" \in done
    /\ "back_str" \notin done
    /\ back_str' = to_string(from_ret)
    /\ done' = done \cup {"back_str"}
    /\ UNCHANGED <<src_str, src_ver, from_ret, to_string_ret, back_ver>>
    /\ UNCHANGED <<hostVars, probeVars>>

Apply_from_of_to_string ==
    /\ "to_string" \in done
    /\ "back_ver" \notin done
    /\ back_ver' = from(to_string_ret)
    /\ done' = done \cup {"back_ver"}
    /\ UNCHANGED <<src_str, src_ver, from_ret, to_string_ret, back_str>>
    /\ UNCHANGED <<hostVars, probeVars>>

VersionInit == HostInit /\ ConvInit /\ ProbeIdle

VersionNext ==
    \/ Apply_from
    \/ Apply_to_string
    \/ Apply_to_string_of_from
    \/ Apply_from_of_to_string

SpecVersion == VersionInit /\ [][VersionNext]_vars

----------------------------------------------------------------------------
(* The accessors of one handle                                              *)
\* what IsLoaded / IsLoadable / IsStarted answer: a status and what they wrote
\* through the BOOL pointer (None: nothing). The status is discarded by the
\* callers; a query that fails is taken to write nothing or FALSE.
BoolValues == {-2147483647 - 1, -1, 0, 1, 2147483647}
BoolAnswers ==
    {[hr |-> S_OK, writes |-> <<b>>] : b \in BoolValues}
        \cup {[hr |-> E_FAIL, writes |-> None], [hr |-> E_FAIL, writes |-> <<0>>]}
NoQuery == [hr |-> S_OK, writes |-> None]

\* what the second GetVersionString answers: a status and the string read back
VersionAnswers ==
    {[hr |-> S_OK, str |-> s] : s \in NativeStrings \cup {""}}
        \cup {[hr |-> E_FAIL, str |-> ""]}
NoVersionQuery == [hr |-> E_FAIL, str |-> ""]

DllNames == {"", "mscorlib.dll"}

SupportedInterfaces == {"CorRuntimeHost", "CLRRuntimeHost", "TypeNameFactory"}

vb_local_starts_true(writes) == IF writes = None THEN -1 ELSE writes[1]

\* let mut vb: BOOL = 0; then the native query writes through &mut vb
vb_local(writes) == IF writes = None THEN 0 ELSE writes[1]

is_true_when_nonzero(b) == b # 0

\* vb < 0
is_true(b) == b < 0

\* loaded(&mut self): self after the call, the value returned, whether
\* IsLoaded was called and the BOOL local
RuntimeInfo_loaded(self, ans) ==
    IF self.loaded # None
    THEN [self |-> self, ret |-> self.loaded[1], asked |-> FALSE, vb |-> 0]
    ELSE LET b == vb_local(ans.writes)
         IN  [self |-> [self EXCEPT !.loaded = <<is_true(b)>>],
              ret |-> is_true(b), asked |-> TRUE, vb |-> b]

RuntimeInfo_loadable(self, ans) ==
    IF self.loadable # None
    THEN [self |-> self, ret |-> self.loadable[1], asked |-> FALSE, vb |-> 0]
    ELSE LET b == vb_local(ans.writes)
         IN  [self |-> [self EXCEPT !.loadable = <<is_true(b)>>],
              ret |-> is_true(b), asked |-> TRUE, vb |-> b]

RuntimeInfo_started_requeries(self, ans) ==
    LET b == vb_local(ans.writes)
    IN  [self |-> [self EXCEPT !.started = <<is_true(b)>>],
         ret |-> is_true(b), asked |-> TRUE, vb |-> b]

RuntimeInfo_started(self, ans) ==
    IF self.started # None
    THEN [self |-> self, ret |-> self.started[1], asked |-> FALSE, vb |-> 0]
    ELSE LET b == vb_local(ans.writes)
         IN  [self |-> [self EXCEPT !.started = <<is_true(b)>>],
              ret |-> is_true(b), asked |-> TRUE, vb |-> b]

\* version(&mut self) goes to GetVersionString unless the field is V2, V3 or V4
version_asks(self) == self.version \notin {V2, V3, V4}

load_library_marks_loaded(self, dll_name) == [self EXCEPT !.loaded = <<TRUE>>]

\* load_library(&mut self, dll_name): the empty body
load_library(self, dll_name) == self

\* the catalog fields no accessor of a handle touches
catalogVars == <<pc, inner, runtimes, loaded_runtimes, next_rc, arg, out_ptr,
                 ret_handle, ret_map, ret_loaded, enum_in, lenum_in, first_ret,
                 runtimes_called, enumerated, snapshot, loaded_called,
                 loaded_first>>

RuntimeInfoImpl_loaded(h, ans) ==
    /\ pc = "ready"
    /\ h \in DOMAIN heap
    /\ LET r == RuntimeInfo_loaded(heap[h], ans)
       IN  /\ r.asked \/ ans = NoQuery      \* no native call: nothing to choose
           /\ ~r.asked \/ ans # NoQuery
           /\ heap' = [heap EXCEPT ![h] = r.self]
           /\ ret_bool' = r.ret
           /\ vb' = r.vb
           /\ calls' = IF r.asked THEN {"IsLoaded"} ELSE {}
           /\ first_bool' = IF contains_key(first_bool, <<h, "loaded">>)
                            THEN first_bool
                            ELSE insert(first_bool, <<h, "loaded">>, r.ret)
    /\ op' = "loaded"
    /\ probe' = <<h>>
    /\ hr' = ans.hr
    /\ ret_version' = Unknown("")
    /\ UNCHANGED <<first_version, catalogVars, convVars>>

RuntimeInfoImpl_loadable(h, ans) ==
    /\ pc = "ready"
    /\ h \in DOMAIN heap
    /\ LET r == RuntimeInfo_loadable(heap[h], ans)
       IN  /\ r.asked \/ ans = NoQuery
           /\ ~r.asked \/ ans # NoQuery
           /\ heap' = [heap EXCEPT ![h] = r.self]
           /\ ret_bool' = r.ret
           /\ vb' = r.vb
           /\ calls' = IF r.asked THEN {"IsLoadable"} ELSE {}
           /\ first_bool' = IF contains_key(first_bool, <<h, "loadable">>)
                            THEN first_bool
                            ELSE insert(first_bool, <<h, "loadable">>, r.ret)
    /\ op' = "loadable"
    /\ probe' = <<h>>
    /\ hr' = ans.hr
    /\ ret_version' = Unknown("")
    /\ UNCHANGED <<first_version, catalogVars, convVars>>

RuntimeInfoImpl_started(h, ans) ==
    /\ pc = "ready"
    /\ h \in DOMAIN heap
    /\ LET r == RuntimeInfo_started(heap[h], ans)
       IN  /\ r.asked \/ ans = NoQuery
           /\ ~r.asked \/ ans # NoQuery
           /\ heap' = [heap EXCEPT ![h] = r.self]
           /\ ret_bool' = r.ret
           /\ vb' = r.vb
           /\ calls' = IF r.asked THEN {"IsStarted"} ELSE {}
           /\ first_bool' = IF contains_key(first_bool, <<h, "started">>)
                            THEN first_bool
                            ELSE insert(first_bool, <<h, "started">>, r.ret)
    /\ op' = "started"
    /\ probe' = <<h>>
    /\ hr' = ans.hr
    /\ ret_version' = Unknown("")
    /\ UNCHANGED <<first_version, catalogVars, convVars>>

RuntimeInfoImpl_trait_version(h, ans) ==
    /\ pc = "ready"
    /\ h \in DOMAIN heap
    /\ version_asks(heap[h]) \/ ans = NoVersionQuery
    /\ LET ri == RuntimeInfo_version(heap[h], ans.hr, ans.str)
       IN  /\ heap' = [heap EXCEPT ![h] = ri]
           /\ ret_version' = ri.version
           /\ first_version' = IF contains_key(first_version, h) THEN first_version
                               ELSE insert(first_version, h, ri.version)
    /\ calls' = IF version_asks(heap[h]) THEN {"GetVersionString"} ELSE {}
    /\ op' = "version"
    /\ probe' = <<h>>
    /\ hr' = ans.hr
    /\ vb' = 0
    /\ ret_bool' = FALSE
    /\ UNCHANGED <<first_bool, catalogVars, convVars>>

RuntimeInfoImpl_load_library(h, dll_name) ==
    /\ pc = "ready"
    /\ h \in DOMAIN heap
    /\ heap' = [heap EXCEPT ![h] = load_library(heap[h], dll_name)]
    /\ calls' = {}
    /\ op' = "load_library"
    /\ probe' = <<h>>
    /\ hr' = S_OK
    /\ vb' = 0
    /\ ret_bool' = FALSE
    /\ ret_version' = Unknown("")
    /\ UNCHANGED <<first_bool, first_version, catalogVars, convVars>>

\* interface(&mut self, supported_intf): GetInterface is called and its status
\* discarded; no field of the handle is read or written. The IntfCtr returned
\* holds the address of a local of the call and is not part of the state.
RuntimeInfoImpl_interface(h, supported_intf, gi_hr) ==
    /\ pc = "ready"
    /\ h \in DOMAIN heap
    /\ calls' = {"GetInterface"}
    /\ op' = "interface"
    /\ probe' = <<h>>
    /\ hr' = gi_hr
    /\ vb' = 0
    /\ ret_bool' = FALSE
    /\ ret_version' = Unknown("")
    /\ UNCHANGED <<heap, first_bool, first_version, catalogVars, convVars>>

\* the catalogs that hold a handle just made: by runtime(version), or by
\* runtimes() from an enumerator of one item
Constructed ==
    {[runtimes |-> insert(HashMap_new, version, 1),
      heap |-> insert(HashMap_new, 1, RuntimeInfoImpl(version, 1)),
      next_rc |-> 1] : version \in RuntimeArgs}
    \cup
    {[runtimes |-> r.runtimes, heap |-> r.heap, next_rc |-> r.next_rc] :
        r \in {c \in {runtimes_call(HashMap_new, HashMap_new, 0,
                                      [hr |-> S_OK, ieu_ptr |-> 1, items |-> <<it>>]) :
                          it \in EnumItems} : ~is_empty(c.heap)}}

HandleInit ==
    /\ \E c \in Constructed :
          /\ runtimes = c.runtimes
          /\ heap = c.heap
          /\ next_rc = c.next_rc
    /\ pc = "ready"
    /\ inner = 1
    /\ loaded_runtimes = HashMap_new
    /\ op = "none"
    /\ arg = Unknown("")
    /\ hr = S_OK
    /\ out_ptr = NULL
    /\ calls = {}
    /\ ret_handle = None
    /\ ret_map = HashMap_new
    /\ ret_loaded = HashMap_new
    /\ enum_in = NoAnswer
    /\ lenum_in = NoAnswer
    /\ first_ret = HashMap_new
    /\ runtimes_called = FALSE
    /\ enumerated = FALSE
    /\ snapshot = HashMap_new
    /\ loaded_called = FALSE
    /\ loaded_first = HashMap_new
    /\ ConvIdle
    /\ ProbeIdle

HandleNext ==
    \/ \E h \in DOMAIN heap, ans \in BoolAnswers \cup {NoQuery} :
          RuntimeInfoImpl_loaded(h, ans)
    \/ \E h \in DOMAIN heap, ans \in BoolAnswers \cup {NoQuery} :
          RuntimeInfoImpl_loadable(h, ans)
    \/ \E h \in DOMAIN heap, ans \in BoolAnswers \cup {NoQuery} :
          RuntimeInfoImpl_started(h, ans)
    \/ \E h \in DOMAIN heap, ans \in VersionAnswers :
          RuntimeInfoImpl_trait_version(h, ans)
    \/ \E h \in DOMAIN heap, dll_name \in DllNames :
          RuntimeInfoImpl_load_library(h, dll_name)
    \/ \E h \in DOMAIN heap, supported_intf \in SupportedInterfaces, gi_hr \in HRESULT :
          RuntimeInfoImpl_interface(h, supported_intf, gi_hr)

SpecHandle == HandleInit /\ [][HandleNext]_vars

----------------------------------------------------------------------------
(* C1: for V2, V3 and V4, to_string gives "v2.0.50727", "v3.0" and          *)
(* "v4.0.30319", from gives the variant back for each of these literals     *)
(* (never Unknown), and the two conversions undo each other on them.        *)
C1_KnownVersionsRoundTrip ==
    /\ "to_string" \in done =>
          /\ src_ver = V2 => to_string_ret = "v2.0.50727"
          /\ src_ver = V3 => to_string_ret = "v3.0"
          /\ src_ver = V4 => to_string_ret = "v4.0.30319"
    /\ "from" \in done =>
          /\ src_str = "v2.0.50727" => from_ret = V2
          /\ src_str = "v3.0" => from_ret = V3
          /\ src_str = "v4.0.30319" => from_ret = V4
    /\ ("back_ver" \in done /\ src_ver \in {V2, V3, V4}) => back_ver = src_ver
    /\ ("back_str" \in done /\ src_str \in VersionLiterals) => back_str = src_str

C1_Witness ==
    /\ done = {"from", "to_string", "back_str", "back_ver"}
    /\ src_ver = V3
    /\ src_str = "v3.0"
    /\ back_ver = V3
    /\ back_str = "v3.0"

(* C2: a string that is none of the three literals converts to Unknown of   *)
(* that very string, and converting that value back gives the string.       *)
C2_UnknownPreserved ==
    src_str \notin VersionLiterals =>
        /\ "from" \in done => from_ret = Unknown(src_str)
        /\ "back_str" \in done => back_str = src_str

C2_Witness ==
    /\ src_str = "v5.0"
    /\ "back_str" \in done
    /\ from_ret = Unknown("v5.0")
    /\ back_str = "v5.0"

----------------------------------------------------------------------------
(* What an enumerator's answer says, for stating the claims about it *)
\* the items Next handed over: those before the first failing Next
Fetched(items) ==
    {i \in 1..Len(items) : \A j \in 1..i : items[j].next_hr = S_OK}
\* the first item with a failing Next or a failing QueryInterface (0: none)
FailsAt(items, i) == items[i].next_hr # S_OK \/ items[i].qi_hr # S_OK
FirstFailure(items) ==
    IF \E i \in 1..Len(items) : FailsAt(items, i)
    THEN CHOOSE i \in 1..Len(items) :
            FailsAt(items, i) /\ \A j \in 1..(i - 1) : ~FailsAt(items, j)
    ELSE Len(items) + 1
\* the version a fetched runtime reports
ReportedKey(it) == IF it.ver_hr = S_OK THEN from(it.ver_str) ELSE Unknown("")
\* the runtimes an enumerator yields: fetched, and a runtime-info object
Yielded(items) ==
    {ReportedKey(items[i]) : i \in {j \in Fetched(items) : items[j].qi_hr = S_OK}}
KeysBefore(items, n) == {ReportedKey(items[i]) : i \in 1..(n - 1)}

----------------------------------------------------------------------------
(* C3: once runtime(v) has succeeded, every later successful runtime(v),    *)
(* whatever runtime, runtimes and loaded_runtimes calls came between,       *)
(* returns the same handle object, still alive, and makes no GetRuntime     *)
(* call.                                                                     *)
C3_SameCachedHandle ==
    [][(op' = "runtime" /\ pc' = "ready" /\ contains_key(first_ret, arg')) =>
          /\ ret_handle' = <<first_ret[arg']>>
          /\ first_ret[arg'] \in DOMAIN heap'
          /\ "GetRuntime" \notin calls']_vars

C3_Witness ==
    /\ op = "runtime"
    /\ arg = V4
    /\ calls = {}
    /\ ret_handle = <<first_ret[V4]>>
    /\ heap[first_ret[V4]].version = V4
    /\ runtimes_called
    /\ loaded_called
    /\ ~enumerated
    /\ Cardinality(DOMAIN runtimes) > 1

(* C4: a loaded_runtimes() call and a runtimes() call made one right after  *)
(* the other return maps with the same key set, and a key the loaded-       *)
(* runtime enumerator did not report is mapped to false, a reported one to  *)
(* true.                                                                     *)
C4_SameKeySet ==
    [][/\ (op = "loaded_runtimes" /\ op' = "runtimes") =>
             DOMAIN ret_map' = DOMAIN ret_loaded
       /\ (op = "runtimes" /\ op' = "loaded_runtimes") =>
             DOMAIN ret_loaded' = DOMAIN ret_map
       /\ (op' = "loaded_runtimes" /\ "EnumerateLoadedRuntimes" \in calls') =>
             \A k \in DOMAIN ret_loaded' :
                 ret_loaded'[k] = (k \in Yielded(lenum_in'.items))]_vars

(* C5: the first runtimes() call, whatever came before it, asks the native  *)
(* installed-runtime enumerator and returns a map with a key for every      *)
(* runtime the enumerator yields.                                            *)
C5_FirstCallEnumerates ==
    [][(~runtimes_called /\ op' = "runtimes") =>
          /\ "EnumerateInstalledRuntimes" \in calls'
          /\ Yielded(enum_in'.items) \subseteq DOMAIN ret_map']_vars

(* C6: once a runtimes() call has run the native enumeration, a later       *)
(* runtimes() call asks no enumerator and returns the same keys with the    *)
(* same handle objects.                                                      *)
C6_SnapshotImmutable ==
    [][(enumerated /\ op' = "runtimes") =>
          /\ "EnumerateInstalledRuntimes" \notin calls'
          /\ ret_map' = snapshot]_vars

(* C7: after the first loaded_runtimes() call has returned, a later call    *)
(* asks no loaded-runtime enumerator and returns the same mapping.          *)
C7_LoadedCached ==
    [][(loaded_called /\ op' = "loaded_runtimes") =>
          /\ "EnumerateLoadedRuntimes" \notin calls'
          /\ ret_loaded' = loaded_first]_vars

(* C8: in the enumeration of runtimes() and of loaded_runtimes(), the first *)
(* failing Next or failing QueryInterface ends it: the map holds the items  *)
(* before the failing one and none after it, and the caller gets no error.  *)
C8_FailureStopsEnumeration ==
    /\ (op = "runtimes" /\ "EnumerateInstalledRuntimes" \in calls
            /\ enumerate_ok(enum_in.hr, enum_in.ieu_ptr)) =>
          /\ pc = "ready"
          /\ DOMAIN ret_map = KeysBefore(enum_in.items, FirstFailure(enum_in.items))
    /\ (op = "loaded_runtimes" /\ "EnumerateLoadedRuntimes" \in calls
            /\ enumerate_ok(lenum_in.hr, lenum_in.ieu_ptr)) =>
          /\ pc = "ready"
          /\ {k \in DOMAIN ret_loaded : ret_loaded[k]}
                = KeysBefore(lenum_in.items, FirstFailure(lenum_in.items))

(* C9: MetaHostImpl::new either returns a catalog with a non-null native    *)
(* pointer and two empty maps or aborts; with a nonzero status or a null    *)
(* pointer from CLRCreateInstance it aborts, and no operation ever runs on  *)
(* a catalog whose pointer is null.                                          *)
C9_NewAllOrNothing ==
    /\ op = "new" =>
          \/ pc = "aborted"
          \/ /\ pc = "ready"
             /\ inner # NULL
             /\ is_empty(runtimes)
             /\ is_empty(loaded_runtimes)
    /\ (op = "new" /\ (hr # 0 \/ out_ptr = NULL)) => pc = "aborted"
    /\ pc = "ready" => inner # NULL
    /\ op \in {"runtime", "runtimes", "loaded_runtimes"} => inner # NULL

C9_Witness ==
    /\ op = "new"
    /\ hr = S_OK
    /\ out_ptr = NULL
    /\ pc = "aborted"

(* C10: runtime(v) with v not cached aborts when GetRuntime reports a       *)
(* failure code, and then no entry for v is inserted; with v cached it      *)
(* never aborts.                                                             *)
C10_RuntimeAbortsOnFailure ==
    [][op' = "runtime" =>
          IF contains_key(runtimes, arg')
          THEN pc' = "ready"
          ELSE hr' # S_OK =>
                  /\ pc' = "aborted"
                  /\ runtimes' = runtimes
                  /\ ~contains_key(runtimes', arg')]_vars

C10_Witness ==
    /\ op = "runtime"
    /\ hr = E_FAIL
    /\ out_ptr # NULL
    /\ pc = "aborted"
    /\ ~is_empty(runtimes)
    /\ ~contains_key(runtimes, arg)

(* the flag accessors of a handle and the native query each one makes *)
Accessors == {"loaded", "loadable", "started"}
NativeQuery(name) ==
    CASE name = "loaded" -> "IsLoaded"
      [] name = "loadable" -> "IsLoadable"
      [] name = "started" -> "IsStarted"

----------------------------------------------------------------------------
(* C11: loaded(), loadable() and started() are memoized per handle: a call  *)
(* of one of them after its first call on that handle makes no native call  *)
(* and returns what the first call returned, whatever the native side       *)
(* would answer now; its first call does ask the native side, whichever of  *)
(* the other two were called before, and a call leaves the other two flags  *)
(* and the version of the handle as they were.                              *)
C11_FlagsMemoized ==
    [][\A name \in Accessors :
          op' = name =>
            /\ IF contains_key(first_bool, <<probe'[1], name>>)
               THEN /\ calls' = {}
                    /\ ret_bool' = first_bool[<<probe'[1], name>>]
               ELSE calls' = {NativeQuery(name)}
            /\ \A other \in Accessors \ {name} :
                  heap'[probe'[1]][other] = heap[probe'[1]][other]
            /\ heap'[probe'[1]].version = heap[probe'[1]].version]_vars

\* a later loaded() answered true from its cache, with no native call, on a
\* handle whose loadable flag is cached as false and whose started flag was
\* never asked for
C11_Witness ==
    /\ op = "loaded"
    /\ calls = {}
    /\ ret_bool = TRUE
    /\ contains_key(first_bool, <<probe[1], "loaded">>)
    /\ heap[probe[1]].loadable = <<FALSE>>
    /\ heap[probe[1]].started = None

----------------------------------------------------------------------------
(* C12: version() is memoized per handle: a version() call after the first  *)
(* one on that handle makes no GetVersionString call and returns what the   *)
(* first one returned, for handles whose version is an Unknown value too.   *)
C12_VersionMemoized ==
    [][(op' = "version" /\ contains_key(first_version, probe'[1])) =>
          /\ calls' = {}
          /\ ret_version' = first_version[probe'[1]]]_vars

----------------------------------------------------------------------------
(* C13: a call of loaded(), loadable() or started() that asks the native    *)
(* side returns true exactly when the BOOL left by the native call is       *)
(* negative, and caches that; zero and every positive value give false.     *)
C13_TrueIffNegative ==
    (op \in Accessors /\ calls # {}) =>
        /\ ret_bool = (vb < 0)
        /\ heap[probe[1]][op] = <<vb < 0>>

\* IsStarted succeeded and wrote 1, and started() returned false
C13_Witness ==
    /\ op = "started"
    /\ calls = {"IsStarted"}
    /\ hr = S_OK
    /\ vb = 1
    /\ ret_bool = FALSE

----------------------------------------------------------------------------
----------------------------------------------------------------------------
(* C15: load_library(name) does nothing, for every name: it makes no native *)
(* call and leaves every handle (version, loaded, loadable, started) and    *)
(* the two maps of the catalog as they were.                                *)
C15_LoadLibraryNoOp ==
    [][op' = "load_library" =>
          /\ calls' = {}
          /\ heap' = heap
          /\ runtimes' = runtimes
          /\ loaded_runtimes' = loaded_runtimes
          /\ pc' = pc]_vars

\* load_library ran on a handle whose loaded flag is cached as false and
\* whose version was resolved
C15_Witness ==
    /\ op = "load_library"
    /\ calls = {}
    /\ heap[probe[1]].loaded = <<FALSE>>
    /\ heap[probe[1]].version = V4

----------------------------------------------------------------------------
(* C16: the handle map only grows: a key that maps to a handle object     *)
(* keeps mapping to that object, which stays alive, through every runtime,  *)
(* runtimes and loaded_runtimes call; every handle runtime(v) has returned  *)
(* is still the one stored under v, and runtimes() and runtime(k) give the  *)
(* same object for k.                                                        *)
C16_HandleMapOnlyGrows ==
    [][/\ \A k \in DOMAIN runtimes :
             /\ contains_key(runtimes', k)
             /\ runtimes'[k] = runtimes[k]
             /\ runtimes'[k] \in DOMAIN heap'
             /\ (op' = "runtime" /\ arg' = k) => ret_handle' = <<runtimes[k]>>
             /\ op' = "runtimes" => (contains_key(ret_map', k)
                                        /\ ret_map'[k] = runtimes[k])
       /\ \A k \in DOMAIN first_ret' :
             /\ contains_key(runtimes', k)
             /\ runtimes'[k] = first_ret'[k]
             /\ first_ret'[k] \in DOMAIN heap']_vars

C16_Witness ==
    /\ enumerated
    /\ op = "runtime"
    /\ calls = {}
    /\ contains_key(snapshot, arg)
    /\ ret_handle = <<snapshot[arg]>>
    /\ snapshot[arg] \in DOMAIN heap
    /\ Cardinality(DOMAIN runtimes) > Cardinality(DOMAIN snapshot)

(* C17: for every entry (k, h) of the handle map, h.version() returns k.    *)
C17_VersionIsKey ==
    op = "version" =>
        \A k \in DOMAIN runtimes : runtimes[k] = probe[1] => ret_version = k

----------------------------------------------------------------------------
(* C18: no two keys of the handle map have the same version string,         *)
(* whatever RuntimeVersion values runtime(v) was called with.               *)
C18_OneEntryPerVersionString ==
    \A k1 \in DOMAIN runtimes : \A k2 \in DOMAIN runtimes :
        k1 # k2 => to_string(k1) # to_string(k2)

============================================================================
